---- MODULE Spec2Model ----
(***************************************************************************)
(* A model of the flash-card server (src/flash_cards.js): the Express      *)
(* routes, the session store (user + flash queue), the process-wide        *)
(* active-store pointer (nameDB / db) and the SQLite files behind it.      *)
(*                                                                         *)
(* A request whose handler awaits more than one statement that matters for *)
(* interleaving (POST /signup, GET /load_db/:name, POST /init) is modelled *)
(* one statement per step, with the handle the statement was issued on     *)
(* kept in the in-flight record; the other handlers are one step.          *)
(***************************************************************************)
EXTENDS Integers, Sequences, FiniteSets, TLC

\* ------------------------------------------------------------------ bounds
MaxInFlight == 2
MaxCards == 2
MaxTags == 4
MaxTagRows == 9

Sessions == {1, 2}
Slots == 1..MaxInFlight
Usernames == {"alice", "bob"}
Passwords == {"pw1", "pw2"}
DbNames == {"cards.db", "x.db"}

NoUser == ""

VARIABLES nameDB, db, files, session, inflight, resp

vars == <<nameDB, db, files, session, inflight, resp>>

\* ------------------------------------------------------------ SQLite files
\* A table: whether it exists, its rows, and its AUTOINCREMENT high-water mark.
NoTable == [exists |-> FALSE, rows |-> {}, seq |-> 0]

EmptyTable == [exists |-> TRUE, rows |-> {}, seq |-> 0]

\* A file that was never written: sqlite3.Database() creates it empty on open.
NewFile == [users |-> NoTable, tags |-> NoTable, cards |-> NoTable]

\* The outcome of one statement: ok or an SQL error, the file after it, its rows.
Done(f, rows) == [ok |-> TRUE, file |-> f, rows |-> rows]

SqlError(f) == [ok |-> FALSE, file |-> f, rows |-> {}]

\* CREATE TABLE IF NOT EXISTS users (... username TEXT NOT NULL UNIQUE ...)
ensureUsersTable(f) ==
    IF f.users.exists THEN Done(f, {})
    ELSE Done([f EXCEPT !.users = EmptyTable], {})

\* the credentials SELECT without its password condition
SelectUserIgnoringPassword(f, username, password) ==
    IF ~f.users.exists THEN SqlError(f)
    ELSE Done(f, {u \in f.users.rows : u.username = username})

\* SELECT * FROM users WHERE username = ? AND password = ?
SelectUserByCredentials(f, username, password) ==
    IF ~f.users.exists THEN SqlError(f)
    ELSE Done(f, {u \in f.users.rows :
                    u.username = username /\ u.password = password})

\* SELECT * FROM users WHERE username = ?
SelectUserByName(f, username) ==
    IF ~f.users.exists THEN SqlError(f)
    ELSE Done(f, {u \in f.users.rows : u.username = username})

\* username declared without UNIQUE
UniqueUsernameOff(f, username) ==
    TRUE

\* The UNIQUE constraint of users.username, as SQLite enforces it on INSERT.
UniqueUsernameOk(f, username) ==
    \A u \in f.users.rows : u.username # username

\* INSERT INTO users (username, password) VALUES (?, ?)
InsertUser(f, username, password) ==
    IF ~f.users.exists \/ ~UniqueUsernameOk(f, username) THEN SqlError(f)
    ELSE LET id == f.users.seq + 1
         IN Done([f EXCEPT !.users.rows = @ \cup
                      {[id |-> id, username |-> username, password |-> password]},
                           !.users.seq = id], {})

\* the probe answering "tags" for any file
checkTableTagAlways(f) ==
    Done(f, {[name |-> "tags"]})

\* SELECT name FROM sqlite_master WHERE type='table' AND name='tags'
checkTableTagExists(f) ==
    IF f.tags.exists THEN Done(f, {[name |-> "tags"]}) ELSE Done(f, {})

\* CREATE TABLE IF NOT EXISTS tags (id INTEGER PRIMARY KEY AUTOINCREMENT, ...)
createTagTable(f) ==
    IF f.tags.exists THEN Done(f, {})
    ELSE Done([f EXCEPT !.tags = EmptyTable], {})

\* INSERT INTO tags (tagName) VALUES (?)
InsertTag(f, tagName) ==
    IF ~f.tags.exists THEN SqlError(f)
    ELSE LET id == f.tags.seq + 1
         IN Done([f EXCEPT !.tags.rows = @ \cup {[id |-> id, tagName |-> tagName]},
                           !.tags.seq = id], {})

\* SELECT id, tagName FROM tags ORDER BY id ASC (the order is that of the ids)
getAllTag(f) ==
    IF ~f.tags.exists THEN SqlError(f) ELSE Done(f, f.tags.rows)

\* SELECT id, tagName FROM tags WHERE id = ?
getTagById(f, tag_id) ==
    IF ~f.tags.exists THEN SqlError(f)
    ELSE Done(f, {t \in f.tags.rows : t.id = tag_id})

\* UPDATE tags SET tagName = ? WHERE id = ?
UpdateTag(f, tagName, tag_id) ==
    IF ~f.tags.exists THEN SqlError(f)
    ELSE Done([f EXCEPT !.tags.rows =
                 {IF t.id = tag_id THEN [t EXCEPT !.tagName = tagName] ELSE t : t \in @}],
              {})

\* data/schema.sql, run by db.exec: the cards and tags tables, created when absent.
initDB(f) ==
    Done([f EXCEPT !.cards = IF @.exists THEN @ ELSE EmptyTable,
                   !.tags = IF @.exists THEN @ ELSE EmptyTable], {})

\* ------------------------------------------------------------------- cards
\* SELECT id, type, front, back, known FROM cards ORDER BY id DESC
SelectAllCards(f) ==
    IF ~f.cards.exists THEN SqlError(f) ELSE Done(f, f.cards.rows)

\* ... WHERE type = ? ORDER BY RANDOM() LIMIT 1, the known condition dropped
getCardKnownToo(f, type) ==
    IF ~f.cards.exists THEN SqlError(f)
    ELSE Done(f, {c \in f.cards.rows : c.type = type})

\* ... WHERE type = ? AND known = 0 ORDER BY RANDOM() LIMIT 1: the rows one of
\* which RANDOM() picks.
getCard(f, type) ==
    IF ~f.cards.exists THEN SqlError(f)
    ELSE Done(f, {c \in f.cards.rows : c.type = type /\ c.known = 0})

\* ... LIMIT 1 without the id condition
getCardByIdAny(f, card_id) ==
    IF ~f.cards.exists THEN SqlError(f)
    ELSE Done(f, f.cards.rows)

\* ... WHERE id = ? LIMIT 1
getCardById(f, card_id) ==
    IF ~f.cards.exists THEN SqlError(f)
    ELSE Done(f, {c \in f.cards.rows : c.id = card_id})

\* ... WHERE known = 0 ORDER BY RANDOM() LIMIT 1
getAnyUnknownCard(f) ==
    IF ~f.cards.exists THEN SqlError(f)
    ELSE Done(f, {c \in f.cards.rows : c.known = 0})

\* ... WHERE type = ? AND known = 1 ORDER BY RANDOM() LIMIT 1
getCardAlreadyKnown(f, type) ==
    IF ~f.cards.exists THEN SqlError(f)
    ELSE Done(f, {c \in f.cards.rows : c.type = type /\ c.known = 1})

\* the INSERT with front and back bound the other way round
InsertCardSwapped(f, type, front, back) ==
    IF ~f.cards.exists THEN SqlError(f)
    ELSE LET id == f.cards.seq + 1
         IN Done([f EXCEPT !.cards.rows = @ \cup
                      {[id |-> id, type |-> type, front |-> back,
                        back |-> front, known |-> 0]},
                           !.cards.seq = id], {})

\* INSERT INTO cards (type, front, back) VALUES (?, ?, ?); known takes the
\* schema's default, 0.
InsertCard(f, type, front, back) ==
    IF ~f.cards.exists THEN SqlError(f)
    ELSE LET id == f.cards.seq + 1
         IN Done([f EXCEPT !.cards.rows = @ \cup
                      {[id |-> id, type |-> type, front |-> front,
                        back |-> back, known |-> 0]},
                           !.cards.seq = id], {})

\* UPDATE cards SET type = ?, front = ?, back = ?, known = ? WHERE id = ?
UpdateCard(f, type, front, back, known, card_id) ==
    IF ~f.cards.exists THEN SqlError(f)
    ELSE Done([f EXCEPT !.cards.rows =
                 {IF c.id = card_id
                  THEN [id |-> c.id, type |-> type, front |-> front,
                        back |-> back, known |-> known]
                  ELSE c : c \in @}], {})

\* DELETE FROM cards, the id condition dropped
DeleteCardAll(f, card_id) ==
    IF ~f.cards.exists THEN SqlError(f)
    ELSE Done([f EXCEPT !.cards.rows = {}], {})

\* DELETE FROM cards WHERE id = ?
DeleteCard(f, card_id) ==
    IF ~f.cards.exists THEN SqlError(f)
    ELSE Done([f EXCEPT !.cards.rows = {c \in @ : c.id # card_id}], {})

\* an UPDATE of known that matches no row
SetKnownNoRow(f, card_id, value) ==
    IF ~f.cards.exists THEN SqlError(f)
    ELSE Done(f, {})

\* UPDATE cards SET known = <value> WHERE id = ?
SetKnown(f, card_id, value) ==
    IF ~f.cards.exists THEN SqlError(f)
    ELSE Done([f EXCEPT !.cards.rows =
                 {IF c.id = card_id THEN [c EXCEPT !.known = value] ELSE c : c \in @}],
              {})

\* UPDATE cards SET type = ? WHERE id = ?
UpdateCardType(f, type, card_id) ==
    IF ~f.cards.exists THEN SqlError(f)
    ELSE Done([f EXCEPT !.cards.rows =
                 {IF c.id = card_id THEN [c EXCEPT !.type = type] ELSE c : c \in @}],
              {})

\* ------------------------------------------------- requests and responses
\* What the last step did: the response it sent (kind "none" while the handler
\* is still awaiting), the flash messages the middleware took out of the session
\* for it, the statements it ran and whether it called the completion service.
NoResp ==
    [sess |-> 0, route |-> "", arrival |-> FALSE, authed |-> FALSE,
     kind |-> "none", status |-> 0, to |-> "", arg |-> 0, error |-> "",
     drained |-> <<>>, shown |-> <<>>, stmts |-> <<>>, hint |-> FALSE,
     card |-> {}, rows |-> {}, filter |-> <<>>, id |-> {}, type |-> {},
     name |-> "", fresh |-> FALSE, alone |-> FALSE,
     username |-> "", password |-> "", front |-> "", back |-> ""]

\* The two app.use middlewares: res.locals.user, and res.locals.flash = req.flash(),
\* which empties the session's queue on every request.
Arrive(s, route) ==
    [NoResp EXCEPT !.sess = s, !.route = route, !.arrival = TRUE,
                   !.authed = (session[s].user # NoUser),
                   !.drained = session[s].flash]

\* res.render(view, ...): the layout shows res.locals.flash
Render(r, view, error) ==
    [r EXCEPT !.kind = "render", !.status = 200, !.to = view, !.error = error,
              !.shown = r.drained]

\* res.redirect(location)
Redirect(r, to, arg) ==
    [r EXCEPT !.kind = "redirect", !.status = 302, !.to = to, !.arg = arg]

\* res.sendStatus(code)
SendStatus(r, code) ==
    [r EXCEPT !.kind = "status", !.status = code]

\* res.status(code).json(...)
Json(r, code) ==
    [r EXCEPT !.kind = "json", !.status = code]

\* The text of a statement handed to db.all / db.get / db.run: a sequence of
\* pieces, one piece when the text is a literal of the source.
Stmt(text) ==
    <<text>>

\* requireLogin without its check
RequireLoginOpen(s) ==
    TRUE

\* requireLogin: next() only when req.session.user is set
RequireLogin(s) ==
    session[s].user # NoUser

\* The session after a one-step request: the queue was emptied by the
\* middleware, then the handler's req.flash(type, msg) calls were appended.
Flashed(s, pushed) ==
    [session EXCEPT ![s].flash = pushed]

\* req.flash(type, msg)
Flash(type, msg) ==
    <<[type |-> type, msg |-> msg]>>

\* -------------------------------------------------------- in-flight requests
\* A handler suspended at an await: where it is, the handle (file) its pending
\* statement was issued on, its inputs, what the middleware drained for it.
\* fresh and alone are history for the store-switch properties: whether the
\* file named had no tags table when the request arrived, and whether no other
\* request has been handled since.
Idle ==
    [pc |-> "idle", sess |-> 0, route |-> "", h |-> "", username |-> "",
     password |-> "", name |-> "", drained |-> <<>>, fresh |-> FALSE,
     alone |-> FALSE]

HasFreeSlot ==
    \E k \in Slots : inflight[k].pc = "idle"

FreeSlot ==
    CHOOSE k \in Slots :
        inflight[k].pc = "idle" /\ \A j \in Slots : j < k => inflight[j].pc # "idle"

\* The in-flight requests after a step of some other request.
Interleaved ==
    [k \in Slots |-> [inflight[k] EXCEPT !.alone = FALSE]]

\* The response of a request that was in flight: it renders what the middleware
\* drained when the request arrived.
Resume(k) ==
    [NoResp EXCEPT !.sess = inflight[k].sess, !.route = inflight[k].route,
                   !.drained = inflight[k].drained, !.name = inflight[k].name,
                   !.fresh = inflight[k].fresh, !.alone = inflight[k].alone,
                   !.username = inflight[k].username,
                   !.password = inflight[k].password]

\* requireLogin's branch for a session without a user: redirect, handler not run.
Denied(s, route) ==
    /\ resp' = Redirect(Arrive(s, route), "/login", 0)
    /\ session' = Flashed(s, <<>>)
    /\ inflight' = Interleaved
    /\ UNCHANGED <<nameDB, db, files>>

\* A one-step handler's outcome: the response, the flash it queued, the file.
Finish(s, r, pushed, file) ==
    /\ resp' = r
    /\ session' = Flashed(s, pushed)
    /\ files' = [files EXCEPT ![db] = file]
    /\ inflight' = Interleaved
    /\ UNCHANGED <<nameDB, db>>

\* ---------------------------------------------------------- authentication
\* GET /login
LoginGet(s) ==
    Finish(s, Render(Arrive(s, "GET /login"), "login", ""), <<>>, files[db])

\* GET /signup
SignupGet(s) ==
    Finish(s, Render(Arrive(s, "GET /signup"), "login", ""), <<>>, files[db])

\* POST /login: one SELECT, then the session's user or the form again.
LoginPost(s, username, password) ==
    LET r == [Arrive(s, "POST /login") EXCEPT !.stmts =
                 <<Stmt("SELECT * FROM users WHERE username = ? AND password = ?")>>,
                 !.username = username, !.password = password]
        q == SelectUserByCredentials(files[db], username, password)
    IN /\ IF q.ok /\ q.rows # {}
          THEN /\ \E user \in q.rows :
                    session' = [session EXCEPT ![s].user = user.username,
                                               ![s].flash = <<>>]
               /\ resp' = Redirect(r, "/list_db", 0)
          ELSE /\ session' = Flashed(s, <<>>)
               /\ resp' = Render(r, "login",
                                 IF q.ok THEN "Invalid username or password!"
                                 ELSE "Login failed!")
       /\ inflight' = Interleaved
       /\ UNCHANGED <<nameDB, db, files>>

\* POST /signup, up to its first await: the existence SELECT is issued on db.
SignupArrive(s, username, password) ==
    /\ HasFreeSlot
    /\ inflight' = [Interleaved EXCEPT ![FreeSlot] =
                      [Idle EXCEPT !.pc = "signup-select", !.sess = s,
                                   !.route = "POST /signup", !.h = db,
                                   !.username = username, !.password = password,
                                   !.drained = session[s].flash]]
    /\ resp' = [Arrive(s, "POST /signup") EXCEPT !.username = username,
                                                  !.password = password]
    /\ session' = Flashed(s, <<>>)
    /\ UNCHANGED <<nameDB, db, files>>

\* POST /signup: the SELECT's rows arrive; reject, or issue the INSERT on db.
SignupSelect(k) ==
    LET req == inflight[k]
        r == [Resume(k) EXCEPT !.stmts =
                 <<Stmt("SELECT * FROM users WHERE username = ?")>>]
        q == SelectUserByName(files[req.h], req.username)
    IN /\ req.pc = "signup-select"
       /\ IF ~q.ok
          THEN /\ resp' = Render(r, "login", "Signup failed!")
               /\ inflight' = [Interleaved EXCEPT ![k] = Idle]
          ELSE IF q.rows # {}
          THEN /\ resp' = Render(r, "login", "Username already exists!")
               /\ inflight' = [Interleaved EXCEPT ![k] = Idle]
          ELSE /\ resp' = r
               /\ inflight' = [Interleaved EXCEPT ![k] =
                                 [req EXCEPT !.pc = "signup-insert", !.h = db]]
       /\ UNCHANGED <<nameDB, db, files, session>>

\* POST /signup: the INSERT completes; log the session in, or "Signup failed!".
SignupInsert(k) ==
    LET req == inflight[k]
        r == [Resume(k) EXCEPT !.stmts =
                 <<Stmt("INSERT INTO users (username, password) VALUES (?, ?)")>>]
        q == InsertUser(files[req.h], req.username, req.password)
    IN /\ req.pc = "signup-insert"
       /\ files' = [files EXCEPT ![req.h] = q.file]
       /\ IF q.ok
          THEN /\ session' = [session EXCEPT ![req.sess].user = req.username]
               /\ resp' = Redirect(r, "/list_db", 0)
          ELSE /\ session' = session
               /\ resp' = Render(r, "login", "Signup failed!")
       /\ inflight' = [Interleaved EXCEPT ![k] = Idle]
       /\ UNCHANGED <<nameDB, db>>

\* GET /logout: req.session.destroy()
Logout(s) ==
    IF ~RequireLogin(s) THEN Denied(s, "GET /logout")
    ELSE /\ session' = [session EXCEPT ![s] = [user |-> NoUser, flash |-> <<>>]]
         /\ resp' = Redirect(Arrive(s, "GET /logout"), "/login", 0)
         /\ inflight' = Interleaved
         /\ UNCHANGED <<nameDB, db, files>>

\* ------------------------------------------------------------ JS strings
\* A string that the code parses or splices is a sequence of characters.
DigitChars == <<"0", "1", "2", "3", "4", "5", "6", "7", "8", "9">>

IsDigit(c) ==
    \E d \in 1..10 : DigitChars[d] = c

DigitVal(c) ==
    (CHOOSE d \in 1..10 : DigitChars[d] = c) - 1

RECURSIVE SkipSpaces(_)
SkipSpaces(str) ==
    IF str # <<>> /\ Head(str) = " " THEN SkipSpaces(Tail(str)) ELSE str

\* The value of the longest prefix of digits of str, and whether there is one.
RECURSIVE DigitPrefix(_, _, _)
DigitPrefix(str, acc, seen) ==
    IF str # <<>> /\ IsDigit(Head(str))
    THEN DigitPrefix(Tail(str), 10 * acc + DigitVal(Head(str)), TRUE)
    ELSE [nan |-> ~seen, val |-> acc]

\* parseInt(str, 10): leading blanks, a sign, then digits up to the first
\* character that is none; NaN without a digit.
ParseInt(str) ==
    LET t == SkipSpaces(str)
        neg == t # <<>> /\ Head(t) = "-"
        signed == t # <<>> /\ Head(t) \in {"-", "+"}
        n == DigitPrefix(IF signed THEN Tail(t) ELSE t, 0, FALSE)
    IN IF n.nan THEN n ELSE [nan |-> FALSE, val |-> IF neg THEN 0 - n.val ELSE n.val]

\* parseInt(x, 10) || 0: NaN and 0 are falsy
OrZero(n) ==
    IF n.nan \/ n.val = 0 THEN 0 ELSE n.val

\* ------------------------------------------------------------- card routes
\* GET / and GET /cards
CardsGet(s) ==
    IF ~RequireLogin(s) THEN Denied(s, "GET /cards")
    ELSE LET r0 == Arrive(s, "GET /cards")
             q == SelectAllCards(files[db])
             t == getAllTag(files[db])
             r == [r0 EXCEPT !.stmts =
                     <<Stmt("SELECT id, type, front, back, known FROM cards ORDER BY id DESC")>>
                     \o (IF q.ok THEN <<Stmt("SELECT id, tagName FROM tags ORDER BY id ASC")>>
                         ELSE <<>>),
                     !.rows = q.rows]
         IN IF q.ok /\ t.ok THEN Finish(s, Render(r, "cards", ""), <<>>, files[db])
            ELSE Finish(s, SendStatus([r EXCEPT !.rows = {}], 500), <<>>, files[db])

\* const filters = {all, general, code, known, unknown}: the clause of a named
\* filter, <<>> when filters[filter_name] is undefined.
filters(filter_name) ==
    CASE filter_name = <<"a", "l", "l">> -> <<"WHERE 1 = 1">>
      [] filter_name = <<"g", "e", "n", "e", "r", "a", "l">> -> <<"WHERE type = 1">>
      [] filter_name = <<"c", "o", "d", "e">> -> <<"WHERE type = 2">>
      [] filter_name = <<"k", "n", "o", "w", "n">> -> <<"WHERE known = 1">>
      [] filter_name = <<"u", "n", "k", "n", "o", "w", "n">> -> <<"WHERE known = 0">>
      [] OTHER -> <<>>

\* queryFilter: the named clause, else `WHERE type = ${filter_name}`
queryFilter(filter_name) ==
    IF filters(filter_name) # <<>> THEN filters(filter_name)
    ELSE <<"WHERE type = ">> \o filter_name

\* The statement text of /filter_cards
FilterStmt(filter_name) ==
    <<"SELECT id, type, front, back, known FROM cards ">>
    \o queryFilter(filter_name) \o <<" ORDER BY id DESC">>

\* SQLite's reading of the expression spliced after "WHERE type = ", on the
\* texts the model sends: a number, the column type, a number OR-ed with 1=1;
\* "match" with the number, "all", or "error" (no such column, syntax error).
SqlTypeExpr(expr) ==
    IF expr # <<>> /\ \A i \in 1..Len(expr) : IsDigit(expr[i])
    THEN [kind |-> "match", val |-> ParseInt(expr).val]
    ELSE IF expr = <<"t", "y", "p", "e">>
            \/ expr = <<"1", " ", "O", "R", " ", "1", "=", "1">>
    THEN [kind |-> "all", val |-> 0]
    ELSE [kind |-> "error", val |-> 0]

\* SELECT ... FROM cards <clause> ORDER BY id DESC, as SQLite runs it
SelectCardsWhere(f, clause) ==
    IF ~f.cards.exists THEN SqlError(f)
    ELSE CASE clause = <<"WHERE 1 = 1">> -> Done(f, f.cards.rows)
           [] clause = <<"WHERE type = 1">> -> Done(f, {c \in f.cards.rows : c.type = 1})
           [] clause = <<"WHERE type = 2">> -> Done(f, {c \in f.cards.rows : c.type = 2})
           [] clause = <<"WHERE known = 1">> -> Done(f, {c \in f.cards.rows : c.known = 1})
           [] clause = <<"WHERE known = 0">> -> Done(f, {c \in f.cards.rows : c.known = 0})
           [] OTHER ->
                LET e == SqlTypeExpr(Tail(clause))
                IN CASE e.kind = "match" -> Done(f, {c \in f.cards.rows : c.type = e.val})
                     [] e.kind = "all" -> Done(f, f.cards.rows)
                     [] OTHER -> SqlError(f)

\* GET /filter_cards/:filter_name
FilterCards(s, filter_name) ==
    IF ~RequireLogin(s) THEN Denied(s, "GET /filter_cards/:filter_name")
    ELSE LET r0 == [Arrive(s, "GET /filter_cards/:filter_name") EXCEPT
                       !.filter = filter_name]
             q == SelectCardsWhere(files[db], queryFilter(filter_name))
             t == getAllTag(files[db])
             r == [r0 EXCEPT !.stmts = <<FilterStmt(filter_name)>>
                     \o (IF q.ok THEN <<Stmt("SELECT id, tagName FROM tags ORDER BY id ASC")>>
                         ELSE <<>>),
                     !.rows = q.rows]
         IN IF q.ok /\ t.ok THEN Finish(s, Render(r, "show", ""), <<>>, files[db])
            ELSE Finish(s, SendStatus([r EXCEPT !.rows = {}], 500), <<>>, files[db])

\* POST /add
AddCard(s, type, front, back) ==
    IF ~RequireLogin(s) THEN Denied(s, "POST /add")
    ELSE LET r == [Arrive(s, "POST /add") EXCEPT !.stmts =
                      <<Stmt("INSERT INTO cards (type, front, back) VALUES (?, ?, ?)")>>,
                      !.type = {type}, !.front = front, !.back = back]
             q == InsertCard(files[db], type, front, back)
         IN /\ files[db].cards.seq < MaxCards
            /\ IF q.ok
               THEN Finish(s, [Redirect(r, "/cards", 0) EXCEPT !.id = {q.file.cards.seq}],
                           Flash("success", "New card was successfully added."), q.file)
               ELSE Finish(s, SendStatus(r, 500), <<>>, q.file)

\* GET /edit/:card_id
EditGet(s, card_id) ==
    IF ~RequireLogin(s) THEN Denied(s, "GET /edit/:card_id")
    ELSE LET r0 == [Arrive(s, "GET /edit/:card_id") EXCEPT !.id = {card_id}]
             q == getCardById(files[db], card_id)
             t == getAllTag(files[db])
             r == [r0 EXCEPT !.stmts =
                     <<Stmt("SELECT id, type, front, back, known FROM cards WHERE id = ? LIMIT 1")>>
                     \o (IF q.ok THEN <<Stmt("SELECT id, tagName FROM tags ORDER BY id ASC")>>
                         ELSE <<>>),
                     !.card = q.rows]
         IN IF q.ok /\ t.ok THEN Finish(s, Render(r, "edit", ""), <<>>, files[db])
            ELSE Finish(s, SendStatus([r EXCEPT !.card = {}], 500), <<>>, files[db])

\* POST /edit-card: type, known and card_id go through parseInt (type and
\* card_id are sent as numerals here)
EditCard(s, type, front, back, known, card_id) ==
    IF ~RequireLogin(s) THEN Denied(s, "POST /edit-card")
    ELSE LET r == [Arrive(s, "POST /edit-card") EXCEPT !.stmts =
                      <<Stmt("UPDATE cards SET type = ?, front = ?, back = ?, known = ? WHERE id = ?")>>,
                      !.id = {ParseInt(card_id).val}]
             q == UpdateCard(files[db], ParseInt(type).val, front, back,
                             OrZero(ParseInt(known)), ParseInt(card_id).val)
         IN IF q.ok
            THEN Finish(s, Redirect(r, "/show", 0), Flash("success", "Card saved."), q.file)
            ELSE Finish(s, SendStatus(r, 500), <<>>, q.file)

\* GET /delete/:card_id
DeleteGet(s, card_id) ==
    IF ~RequireLogin(s) THEN Denied(s, "GET /delete/:card_id")
    ELSE LET r == [Arrive(s, "GET /delete/:card_id") EXCEPT !.stmts =
                      <<Stmt("DELETE FROM cards WHERE id = ?")>>, !.id = {card_id}]
             q == DeleteCard(files[db], card_id)
         IN IF q.ok
            THEN Finish(s, Redirect(r, "/cards", 0), Flash("success", "Card deleted."), q.file)
            ELSE Finish(s, SendStatus(r, 500), <<>>, q.file)

\* GET /memorize, /memorize/:card_type, /memorize/:card_type/:card_id; an absent
\* path parameter is {}, a given one {value}.
Memorize(s, card_type, card_id) ==
    IF ~RequireLogin(s) THEN Denied(s, "GET /memorize")
    ELSE LET r0 == [Arrive(s, "GET /memorize") EXCEPT !.type = card_type, !.id = card_id]
             q == IF card_id # {}
                  THEN getCardById(files[db], CHOOSE i \in card_id : TRUE)
                  ELSE IF card_type # {}
                  THEN getCard(files[db], CHOOSE t \in card_type : TRUE)
                  ELSE getAnyUnknownCard(files[db])
             sel == IF card_id # {}
                    THEN "SELECT id, type, front, back, known FROM cards WHERE id = ? LIMIT 1"
                    ELSE IF card_type # {}
                    THEN "SELECT id, type, front, back, known FROM cards WHERE type = ? AND known = 0 ORDER BY RANDOM() LIMIT 1"
                    ELSE "SELECT id, type, front, back, known FROM cards WHERE known = 0 ORDER BY RANDOM() LIMIT 1"
             r == [r0 EXCEPT !.stmts = <<Stmt(sel)>>]
             t == getAllTag(files[db])
         IN IF ~q.ok THEN Finish(s, SendStatus(r, 500), <<>>, files[db])
            ELSE IF q.rows = {}
            THEN Finish(s, Redirect(r, "/show", 0),
                        Flash("info", IF card_type # {}
                                      THEN "You've learned all the cards of this type."
                                      ELSE "You've learned all unknown cards."),
                        files[db])
            ELSE \E card \in q.rows :
                   LET rt == [r EXCEPT !.stmts = @ \o
                                <<Stmt("SELECT id, tagName FROM tags ORDER BY id ASC")>>]
                   IN IF t.ok
                      THEN Finish(s, [Render(rt, "memorize", "") EXCEPT !.card = {card}],
                                  <<>>, files[db])
                      ELSE Finish(s, SendStatus(rt, 500), <<>>, files[db])

\* GET /memorize_known, /memorize_known/:card_type, /memorize_known/:card_type/:card_id
MemorizeKnown(s, type_param, card_id) ==
    IF ~RequireLogin(s) THEN Denied(s, "GET /memorize_known")
    ELSE LET card_type == IF type_param # {} THEN CHOOSE t \in type_param : TRUE ELSE 1
             r0 == [Arrive(s, "GET /memorize_known") EXCEPT
                       !.type = type_param, !.id = card_id]
             q == IF card_id # {}
                  THEN getCardAlreadyKnown(files[db], CHOOSE i \in card_id : TRUE)
                  ELSE getCardAlreadyKnown(files[db], card_type)
             r == [r0 EXCEPT !.stmts =
                     <<Stmt("SELECT id, type, front, back, known FROM cards WHERE type = ? AND known = 1 ORDER BY RANDOM() LIMIT 1")>>]
             tag == getTagById(files[db], card_type)
             t == getAllTag(files[db])
         IN IF ~q.ok THEN Finish(s, SendStatus(r, 500), <<>>, files[db])
            ELSE IF q.rows = {}
            THEN LET rg == [r EXCEPT !.stmts = @ \o
                              <<Stmt("SELECT id, tagName FROM tags WHERE id = ?")>>]
                 IN \* tag.tagName throws when no tag has that id
                    IF tag.ok /\ tag.rows # {}
                    THEN Finish(s, Redirect(rg, "/show", 0),
                                Flash("info", "You've no more known '${tag.tagName}' cards to review."),
                                files[db])
                    ELSE Finish(s, SendStatus(rg, 500), <<>>, files[db])
            ELSE \E card \in q.rows :
                   LET rt == [r EXCEPT !.stmts = @ \o
                                <<Stmt("SELECT id, tagName FROM tags ORDER BY id ASC")>>]
                   IN IF t.ok
                      THEN Finish(s, [Render(rt, "memorize_known", "") EXCEPT !.card = {card}],
                                  <<>>, files[db])
                      ELSE Finish(s, SendStatus(rt, 500), <<>>, files[db])

\* GET /mark-known/:card_id/:card_type
MarkKnown(s, card_id, card_type) ==
    IF ~RequireLogin(s) THEN Denied(s, "GET /mark-known/:card_id/:card_type")
    ELSE LET r == [Arrive(s, "GET /mark-known/:card_id/:card_type") EXCEPT
                      !.stmts = <<Stmt("UPDATE cards SET known = 1 WHERE id = ?")>>,
                      !.id = {card_id}, !.type = {card_type}]
             q == SetKnown(files[db], card_id, 1)
         IN IF q.ok
            THEN Finish(s, Redirect(r, "/memorize/:card_type", card_type),
                        Flash("success", "Card marked as known."), q.file)
            ELSE Finish(s, SendStatus(r, 500), <<>>, q.file)

\* GET /mark_unknown/:card_id/:card_type
MarkUnknown(s, card_id, card_type) ==
    IF ~RequireLogin(s) THEN Denied(s, "GET /mark_unknown/:card_id/:card_type")
    ELSE LET r == [Arrive(s, "GET /mark_unknown/:card_id/:card_type") EXCEPT
                      !.stmts = <<Stmt("UPDATE cards SET known = 0 WHERE id = ?")>>,
                      !.id = {card_id}, !.type = {card_type}]
             q == SetKnown(files[db], card_id, 0)
         IN IF q.ok
            THEN Finish(s, Redirect(r, "/memorize_known/:card_type", card_type),
                        Flash("success", "Card marked as unknown."), q.file)
            ELSE Finish(s, SendStatus(r, 500), <<>>, q.file)

\* GET /bookmark/:card_type/:card_id
Bookmark(s, card_type, card_id) ==
    IF ~RequireLogin(s) THEN Denied(s, "GET /bookmark/:card_type/:card_id")
    ELSE LET r == [Arrive(s, "GET /bookmark/:card_type/:card_id") EXCEPT
                      !.stmts = <<Stmt("UPDATE cards SET type = ? WHERE id = ?")>>,
                      !.id = {card_id}, !.type = {card_type}]
             q == UpdateCardType(files[db], card_type, card_id)
         IN IF q.ok
            THEN Finish(s, Redirect(r, "/memorize/:card_type", card_type),
                        Flash("success", "Card saved."), q.file)
            ELSE Finish(s, SendStatus(r, 500), <<>>, q.file)

\* getAIHintForCard: buildHintPrompt throws when DEEPSEEK_HINT_PROMPT is unset
\* ("no-template", before the call); otherwise openai.chat.completions.create is
\* called and answers ("ok") or fails ("failed").
HintOutcomes == {"no-template", "ok", "failed"}

\* GET /hint/:card_id
Hint(s, card_id, outcome) ==
    IF ~RequireLogin(s) THEN Denied(s, "GET /hint/:card_id")
    ELSE LET r == [Arrive(s, "GET /hint/:card_id") EXCEPT
                      !.stmts = <<Stmt("SELECT id, type, front, back, known FROM cards WHERE id = ? LIMIT 1")>>,
                      !.id = {card_id}]
             card == getCardById(files[db], card_id)
         IN IF ~card.ok THEN Finish(s, SendStatus(r, 500), <<>>, files[db])
            ELSE IF card.rows = {}
            THEN Finish(s, [Json(r, 404) EXCEPT !.error = "Card not found"], <<>>, files[db])
            ELSE LET rc == [r EXCEPT !.card = card.rows,
                                     !.hint = (outcome # "no-template")]
                 IN IF outcome = "ok" THEN Finish(s, Json(rc, 200), <<>>, files[db])
                    ELSE Finish(s, SendStatus(rc, 500), <<>>, files[db])

\* -------------------------------------------------------------- tag routes
\* GET /tags
TagsGet(s) ==
    IF ~RequireLogin(s) THEN Denied(s, "GET /tags")
    ELSE LET r == [Arrive(s, "GET /tags") EXCEPT !.stmts =
                      <<Stmt("SELECT id, tagName FROM tags ORDER BY id ASC")>>]
             t == getAllTag(files[db])
         IN IF t.ok THEN Finish(s, [Render(r, "tags", "") EXCEPT !.rows = t.rows],
                                <<>>, files[db])
            ELSE Finish(s, SendStatus(r, 500), <<>>, files[db])

\* POST /add-tag
AddTag(s, tagName) ==
    IF ~RequireLogin(s) THEN Denied(s, "POST /add-tag")
    ELSE LET r == [Arrive(s, "POST /add-tag") EXCEPT !.stmts =
                      <<Stmt("INSERT INTO tags (tagName) VALUES (?)")>>]
             q == InsertTag(files[db], tagName)
         IN /\ files[db].tags.seq < MaxTags
            /\ IF q.ok
               THEN Finish(s, Redirect(r, "/tags", 0),
                           Flash("success", "New tag was successfully added."), q.file)
               ELSE Finish(s, SendStatus(r, 500), <<>>, q.file)

\* GET /edit-tag?tag_id=
EditTagGet(s, tag_id) ==
    IF ~RequireLogin(s) THEN Denied(s, "GET /edit-tag")
    ELSE LET r == [Arrive(s, "GET /edit-tag") EXCEPT !.stmts =
                      <<Stmt("SELECT id, tagName FROM tags WHERE id = ?")>>,
                      !.id = {tag_id}]
             tag == getTagById(files[db], tag_id)
         IN IF tag.ok THEN Finish(s, [Render(r, "editTag", "") EXCEPT !.rows = tag.rows],
                                  <<>>, files[db])
            ELSE Finish(s, SendStatus(r, 500), <<>>, files[db])

\* POST /update-tag
UpdateTagPost(s, tagName, tag_id) ==
    IF ~RequireLogin(s) THEN Denied(s, "POST /update-tag")
    ELSE LET r == [Arrive(s, "POST /update-tag") EXCEPT !.stmts =
                      <<Stmt("UPDATE tags SET tagName = ? WHERE id = ?")>>,
                      !.id = {tag_id}]
             q == UpdateTag(files[db], tagName, tag_id)
         IN IF q.ok
            THEN Finish(s, Redirect(r, "/tags", 0), Flash("success", "Tag saved."), q.file)
            ELSE Finish(s, SendStatus(r, 500), <<>>, q.file)

\* GET /show: no try/catch; a failed statement rejects the handler's promise and
\* Express sends nothing (version 4) or its error handler's 500 (version 5).
ShowGet(s) ==
    IF ~RequireLogin(s) THEN Denied(s, "GET /show")
    ELSE LET r0 == Arrive(s, "GET /show")
             t == getAllTag(files[db])
             q == SelectAllCards(files[db])
             r == [r0 EXCEPT !.stmts =
                     <<Stmt("SELECT id, tagName FROM tags ORDER BY id ASC")>>
                     \o (IF t.ok
                         THEN <<Stmt("SELECT id, type, front, back, known FROM cards ORDER BY id DESC")>>
                         ELSE <<>>)]
         IN IF q.ok /\ t.ok
            THEN Finish(s, [Render(r, "show", "") EXCEPT !.rows = q.rows], <<>>, files[db])
            ELSE \E sent \in BOOLEAN :
                   Finish(s, IF sent THEN SendStatus(r, 500) ELSE r, <<>>, files[db])

\* ------------------------------------------------ store management routes
\* GET /list_db: fs.readdir, no statement
ListDb(s) ==
    IF ~RequireLogin(s) THEN Denied(s, "GET /list_db")
    ELSE Finish(s, Render(Arrive(s, "GET /list_db"), "listDb", ""), <<>>, files[db])

\* GET /create_db
CreateDbGet(s) ==
    IF ~RequireLogin(s) THEN Denied(s, "GET /create_db")
    ELSE Finish(s, Render(Arrive(s, "GET /create_db"), "createDb", ""), <<>>, files[db])

\* The switch requests in flight, and the tag rows they may still insert.
Switching ==
    {k \in Slots : inflight[k].route \in {"GET /load_db/:name", "POST /init"}}

TagRoom(more) ==
    \A n \in DbNames :
        files[n].tags.seq + 3 * (Cardinality(Switching) + more) <= MaxTagRows

\* nameDB = name; db.close(); connectDB() up to its await: db is the new handle
\* from here on, the handler waits for the open callback.
SwitchTo(s, route, name) ==
    /\ HasFreeSlot
    /\ TagRoom(1)
    /\ nameDB' = name
    /\ db' = name
    /\ inflight' = [Interleaved EXCEPT ![FreeSlot] =
                      [Idle EXCEPT !.pc = "connect", !.sess = s, !.route = route,
                                   !.h = name, !.name = name,
                                   !.drained = session[s].flash,
                                   !.fresh = ~files[name].tags.exists,
                                   !.alone = (\A k \in Slots : inflight[k].pc = "idle")]]
    /\ resp' = [Arrive(s, route) EXCEPT !.name = name]
    /\ session' = Flashed(s, <<>>)
    /\ UNCHANGED files

\* GET /load_db/:name
LoadDb(s, name) ==
    IF ~RequireLogin(s) THEN Denied(s, "GET /load_db/:name")
    ELSE SwitchTo(s, "GET /load_db/:name", name)

\* dbName + ".db"
DotDb(dbName) ==
    CASE dbName = "cards" -> "cards.db"
      [] dbName = "x" -> "x.db"

\* POST /init
InitPost(s, dbName) ==
    IF ~RequireLogin(s) THEN Denied(s, "POST /init")
    ELSE SwitchTo(s, "POST /init", DotDb(dbName))

\* A step of an in-flight request that sends nothing yet: its statement ran on
\* the handle it was issued on, the next one is issued on db.
Await(k, pc, stmt, file) ==
    /\ resp' = [Resume(k) EXCEPT !.stmts = stmt]
    /\ inflight' = [Interleaved EXCEPT ![k] = [inflight[k] EXCEPT !.pc = pc, !.h = db]]
    /\ files' = [files EXCEPT ![inflight[k].h] = file]
    /\ UNCHANGED <<nameDB, db, session>>

\* The last step of an in-flight request.
Reply(k, r, file) ==
    /\ resp' = r
    /\ inflight' = [Interleaved EXCEPT ![k] = Idle]
    /\ files' = [files EXCEPT ![inflight[k].h] = file]
    /\ UNCHANGED <<nameDB, db, session>>

\* connectDB resolves: ensureUsersTable is issued
Connected(k) ==
    /\ inflight[k].pc = "connect"
    /\ Await(k, "users", <<>>, files[inflight[k].h])

\* await ensureUsersTable(): then checkTableTagExists (load_db) or initDB (init)
EnsureUsers(k) ==
    /\ inflight[k].pc = "users"
    /\ Await(k, IF inflight[k].route = "POST /init" THEN "schema" ELSE "check",
             <<Stmt("CREATE TABLE IF NOT EXISTS users")>>,
             ensureUsersTable(files[inflight[k].h]).file)

\* await checkTableTagExists(): if (!exists) createTagTable, else redirect
LoadDbCheck(k) ==
    LET f == files[inflight[k].h]
        st == <<Stmt("SELECT name FROM sqlite_master WHERE type='table' AND name='tags'")>>
    IN /\ inflight[k].pc = "check"
       /\ IF checkTableTagExists(f).rows = {}
          THEN Await(k, "create", st, f)
          ELSE Reply(k, Redirect([Resume(k) EXCEPT !.stmts = st],
                                 "/memorize/:card_type", 1), f)

\* await createTagTable()
LoadDbCreate(k) ==
    /\ inflight[k].pc = "create"
    /\ Await(k, "tag1", <<Stmt("CREATE TABLE IF NOT EXISTS tags")>>,
             createTagTable(files[inflight[k].h]).file)

\* await initDB()
InitSchema(k) ==
    /\ inflight[k].pc = "schema"
    /\ Await(k, "tag1", <<Stmt("data/schema.sql")>>, initDB(files[inflight[k].h]).file)

\* initTag's three awaited INSERTs, then the redirect; a failed one is the 500
InitTagStep(k, pc, tagName, next) ==
    LET q == InsertTag(files[inflight[k].h], tagName)
        r == [Resume(k) EXCEPT !.stmts = <<Stmt("INSERT INTO tags (tagName) VALUES (?)")>>]
    IN /\ inflight[k].pc = pc
       /\ IF ~q.ok THEN Reply(k, SendStatus(r, 500), q.file)
          ELSE IF next # "" THEN Await(k, next, r.stmts, q.file)
          ELSE IF inflight[k].route = "POST /init"
          THEN Reply(k, Redirect(r, "/", 0), q.file)
          ELSE Reply(k, Redirect(r, "/memorize/:card_type", 1), q.file)

initTag(k) ==
    \/ InitTagStep(k, "tag1", "general", "tag2")
    \/ InitTagStep(k, "tag2", "code", "tag3")
    \/ InitTagStep(k, "tag3", "bookmark", "")

\* ------------------------------------------------------------ server start
\* initTag with nothing else running: the three INSERTs one after the other
SeedTags(f) ==
    InsertTag(InsertTag(InsertTag(f, "general").file, "code").file, "bookmark").file

\* startServer on the file cards.db as found: users table, then, when there is
\* no tags table, schema, tags table and the three tags; then app.listen.
startServer(f) ==
    LET u == ensureUsersTable(f).file
    IN IF checkTableTagExists(u).rows = {}
       THEN SeedTags(createTagTable(initDB(u).file).file)
       ELSE u

\* cards.db as the server may find it: absent, holding only a users table, or
\* left by an earlier run
BootFiles ==
    {NewFile, [NewFile EXCEPT !.users = EmptyTable], startServer(NewFile)}

Started(file) ==
    /\ nameDB = "cards.db"
    /\ db = "cards.db"
    /\ files = [n \in DbNames |-> IF n = "cards.db" THEN file ELSE NewFile]
    /\ inflight = [k \in Slots |-> Idle]

\* The server just started, nobody logged in.
Init ==
    /\ \E pre \in BootFiles :
          /\ Started(startServer(pre))
          /\ resp = [NoResp EXCEPT !.route = "startServer", !.kind = "listen",
                                   !.name = "cards.db", !.fresh = ~pre.tags.exists,
                                   !.alone = TRUE]
    /\ session = [s \in Sessions |-> [user |-> NoUser, flash |-> <<>>]]

\* After the first request to a fresh server: session 1 has signed up as alice
\* and was redirected to /list_db.
SignedUp ==
    /\ Started(InsertUser(startServer(NewFile), "alice", "pw1").file)
    /\ session = [s \in Sessions |->
                    [user |-> IF s = 1 THEN "alice" ELSE NoUser, flash |-> <<>>]]
    /\ resp = [NoResp EXCEPT !.sess = 1, !.route = "POST /signup",
                             !.username = "alice", !.password = "pw1",
                             !.stmts = <<Stmt("INSERT INTO users (username, password) VALUES (?, ?)")>>,
                             !.kind = "redirect", !.status = 302, !.to = "/list_db"]

\* ----------------------------------------------------------- specifications
\* The steps of the signups in flight.
ContinueSignup ==
    \E k \in Slots :
        \/ SignupSelect(k)
        \/ SignupInsert(k)

\* The steps of the store switches in flight.
ContinueSwitch ==
    \E k \in Slots :
        \/ Connected(k)
        \/ EnsureUsers(k)
        \/ LoadDbCheck(k)
        \/ LoadDbCreate(k)
        \/ InitSchema(k)
        \/ initTag(k)

\* No request is in flight.
Quiet ==
    \A k \in Slots : inflight[k].pc = "idle"

\* Every route, asked for by a session that signs up, logs in and out, with
\* one input per route; the client sends its next request when the last one
\* was answered, adds one card and one tag to a store, and initialises cards.db once more.
NextGate ==
    \/ Quiet /\ LoginGet(1)
    \/ Quiet /\ SignupGet(1)
    \/ Quiet /\ \E p \in Passwords : LoginPost(1, "alice", p)
    \/ Quiet /\ SignupArrive(1, "alice", "pw1")
    \/ Quiet /\ Logout(1)
    \/ Quiet /\ CardsGet(1)
    \/ Quiet /\ FilterCards(1, <<"a", "l", "l">>)
    \/ Quiet /\ files[db].cards.seq = 0 /\ AddCard(1, 1, "q", "a")
    \/ Quiet /\ EditGet(1, 1)
    \/ Quiet /\ EditCard(1, <<"1">>, "q", "a", <<"1">>, <<"1">>)
    \/ Quiet /\ DeleteGet(1, 1)
    \/ Quiet /\ Memorize(1, {1}, {})
    \/ Quiet /\ MemorizeKnown(1, {1}, {})
    \/ Quiet /\ MarkKnown(1, 1, 1)
    \/ Quiet /\ MarkUnknown(1, 1, 1)
    \/ Quiet /\ Bookmark(1, 1, 1)
    \/ Quiet /\ Hint(1, 1, "ok")
    \/ Quiet /\ TagsGet(1)
    \/ Quiet /\ files[db].tags.seq = 3 /\ AddTag(1, "math")
    \/ Quiet /\ EditTagGet(1, 1)
    \/ Quiet /\ UpdateTagPost(1, "math", 1)
    \/ Quiet /\ ShowGet(1)
    \/ Quiet /\ ListDb(1)
    \/ Quiet /\ CreateDbGet(1)
    \/ Quiet /\ LoadDb(1, "x.db")
    \/ Quiet /\ files["cards.db"].tags.seq <= 4 /\ InitPost(1, "cards")
    \/ ContinueSignup
    \/ ContinueSwitch

SpecGate ==
    Init /\ [][NextGate]_vars

\* Sessions signing up, logging in and out, their requests interleaved.
NextAuth ==
    \/ \E s \in Sessions : LoginGet(s)
    \/ \E s \in Sessions : SignupGet(s)
    \/ \E s \in Sessions, p \in Passwords : LoginPost(s, "alice", p)
    \/ \E s \in Sessions, u \in Usernames : SignupArrive(s, u, "pw1")
    \/ \E s \in Sessions : Logout(s)
    \/ ContinueSignup

SpecAuth ==
    Init /\ [][NextAuth]_vars

\* From the server's start: a session signs up, then switches and creates
\* stores, these requests interleaved.
NextStore ==
    \/ Quiet /\ ~RequireLogin(1) /\ SignupArrive(1, "alice", "pw1")
    \/ ContinueSignup
    \/ \E n \in DbNames : LoadDb(1, n)
    \/ \E d \in {"cards", "x"} : InitPost(1, d)
    \/ ContinueSwitch

SpecStore ==
    Init /\ [][NextStore]_vars

\* The ids requests name: the first two a store hands out, and one no card has.
CardIds == {1, 2, 9}

\* The types requests name: general, code, and one no tag has.
TypeParams == {1, 2, 9}

\* The known values POST /edit-card is sent: "1", "a"
KnownInputs == {<<"1">>, <<"a">>}

\* The five filter names of the route's table.
NamedFilters ==
    {<<"a", "l", "l">>, <<"g", "e", "n", "e", "r", "a", "l">>, <<"c", "o", "d", "e">>,
     <<"k", "n", "o", "w", "n">>, <<"u", "n", "k", "n", "o", "w", "n">>}

\* The filter names sent: the named ones, numbers, and texts that are neither:
\* abc, type, 1 OR 1=1
FilterNames ==
    NamedFilters \cup
    {<<"1">>, <<"9">>, <<"a", "b", "c">>, <<"t", "y", "p", "e">>,
     <<"1", " ", "O", "R", " ", "1", "=", "1">>}

\* A signed-up session listing, filtering and asking hints for the cards of one
\* store while cards are added, marked and deleted.
NextBrowse ==
    \/ CardsGet(1)
    \/ \E n \in FilterNames : FilterCards(1, n)
    \/ \E t \in {1, 2} : AddCard(1, t, "q", "a")
    \/ \E i \in CardIds : DeleteGet(1, i)
    \/ \E i \in CardIds : MarkKnown(1, i, 1)
    \/ \E i \in CardIds, o \in HintOutcomes : Hint(1, i, o)

SpecBrowse ==
    SignedUp /\ [][NextBrowse]_vars

\* A signed-up session drilling the cards of one store: adding, editing,
\* marking, bookmarking and deleting cards and walking the two study views.
NextStudy ==
    \/ ShowGet(1)
    \/ \E t \in {1, 2} : AddCard(1, t, "q", "a")
    \/ \E i \in CardIds : EditGet(1, i)
    \/ \E t \in {<<"1">>, <<"2">>}, k \in KnownInputs, i \in {<<"1">>, <<"2">>} :
          EditCard(1, t, "q", "a", k, i)
    \/ \E i \in CardIds : DeleteGet(1, i)
    \/ Memorize(1, {}, {})
    \/ \E t \in TypeParams : Memorize(1, {t}, {})
    \/ \E t \in TypeParams, i \in CardIds : Memorize(1, {t}, {i})
    \/ MemorizeKnown(1, {}, {})
    \/ \E t \in TypeParams : MemorizeKnown(1, {t}, {})
    \/ \E t \in TypeParams, i \in CardIds : MemorizeKnown(1, {t}, {i})
    \/ \E i \in CardIds, t \in {1, 2} : MarkKnown(1, i, t)
    \/ \E i \in CardIds, t \in {1, 2} : MarkUnknown(1, i, t)
    \/ \E i \in CardIds : Bookmark(1, 2, i)
    \/ \E i \in {1, 9} : EditTagGet(1, i)

SpecStudy ==
    SignedUp /\ [][NextStudy]_vars

\* The known values POST /edit-card is sent in the editing sessions: "0", "1",
\* "5", "a", "-1"
KnownSent == {<<"0">>, <<"1">>, <<"5">>, <<"a">>, <<"-", "1">>}

\* The (front, back) pairs POST /add is sent in the editing sessions.
CardTexts == {<<"q", "a">>, <<"a", "q">>}

\* A signed-up session adding cards of either type and text, rewriting card 1
\* with any known value, marking, bookmarking, looking up and deleting cards.
NextEdit ==
    \/ \E t \in {1, 2}, fb \in CardTexts : AddCard(1, t, fb[1], fb[2])
    \/ \E k \in KnownSent : EditCard(1, <<"2">>, "q", "a", k, <<"1">>)
    \/ \E i \in CardIds : EditGet(1, i)
    \/ \E i \in CardIds : DeleteGet(1, i)
    \/ \E i \in {1, 2} : MarkKnown(1, i, 1)
    \/ \E i \in {1, 2} : MarkUnknown(1, i, 1)
    \/ \E i \in {1, 2} : Bookmark(1, 2, i)

SpecEdit ==
    SignedUp /\ [][NextEdit]_vars

\* ------------------------------------------------------------ properties
PublicRoutes ==
    {"GET /login", "POST /login", "GET /signup", "POST /signup"}

\* C1: a request for any route other than GET/POST /login and /signup from a
\* session without a user is redirected to /login, and it runs no statement,
\* calls no hint service and leaves the files and the active-store pointer as
\* they were, whatever requests came before.
C1_UnauthenticatedRedirected ==
    [][(resp'.arrival /\ ~resp'.authed /\ resp'.route \notin PublicRoutes)
        => /\ resp'.kind = "redirect"
           /\ resp'.to = "/login"
           /\ resp'.stmts = <<>>
           /\ ~resp'.hint
           /\ UNCHANGED <<files, nameDB, db>>]_vars

\* C1 witness: after cards were added and the store switched, a session without
\* a user asked for /load_db and was sent to /login.
C1_Witness ==
    /\ resp.arrival /\ ~resp.authed
    /\ resp.route = "GET /load_db/:name"
    /\ resp.kind = "redirect" /\ resp.to = "/login"
    /\ files["cards.db"].cards.rows # {}
    /\ nameDB = "x.db"

\* The usernames of a file's users table.
UsernamesOf(f) ==
    {u.username : u \in f.users.rows}

UsersUnique ==
    \A n \in DbNames : \A u, v \in files[n].users.rows :
        u.username = v.username => u = v

\* The step answers a POST /signup.
SignupAnswered ==
    resp'.route = "POST /signup" /\ resp'.kind # "none"

\* C2: however POST /signup requests interleave, no users table holds two rows
\* with one username; a signup whose username is not in the table when it
\* completes adds exactly one row, with that username, and sets the session's
\* user to it; one whose username is there is answered with the form and an
\* error, adds no row and leaves the session's user as it was.
C2_SignupUnique ==
    /\ []UsersUnique
    /\ [][SignupAnswered =>
            IF resp'.username \notin UsernamesOf(files[db])
            THEN /\ resp'.kind = "redirect"
                 /\ session'[resp'.sess].user = resp'.username
                 /\ \E row \in files'[db].users.rows :
                       /\ row \notin files[db].users.rows
                       /\ row.username = resp'.username
                       /\ files'[db].users.rows = files[db].users.rows \cup {row}
            ELSE /\ resp'.kind = "render" /\ resp'.to = "login" /\ resp'.error # ""
                 /\ files' = files
                 /\ session' = session]_vars

\* C2 witness: two signups for alice raced past the existence check; the second
\* INSERT was refused, its session has no user, and alice has one row.
C2_Witness ==
    /\ resp.route = "POST /signup"
    /\ resp.error = "Signup failed!"
    /\ resp.username = "alice"
    /\ session[resp.sess].user = NoUser
    /\ Cardinality({u \in files[db].users.rows : u.username = "alice"}) = 1

\* C3: POST /login with a username and password that no users row holds
\* together renders the login form with an error and leaves the session's user
\* as it was, set or not; with a pair some row holds it sets the session's user
\* to that username.
C3_LoginExact ==
    [][resp'.route = "POST /login" =>
         IF \E u \in files[db].users.rows :
               u.username = resp'.username /\ u.password = resp'.password
         THEN /\ resp'.kind = "redirect"
              /\ session'[resp'.sess].user = resp'.username
         ELSE /\ resp'.kind = "render" /\ resp'.to = "login" /\ resp'.error # ""
              /\ session'[resp'.sess].user = session[resp'.sess].user]_vars

\* C3 witness: a session logged in as bob sent alice's name with a password
\* that is not hers, got the form with the error and is still bob.
C3_Witness ==
    /\ resp.route = "POST /login"
    /\ resp.kind = "render"
    /\ resp.error = "Invalid username or password!"
    /\ resp.username = "alice"
    /\ \E u \in files[db].users.rows : u.username = "alice" /\ u.password # resp.password
    /\ session[resp.sess].user = "bob"

\* The tags table as initTag leaves a new one.
DefaultTags ==
    {[id |-> 1, tagName |-> "general"], [id |-> 2, tagName |-> "code"],
     [id |-> 3, tagName |-> "bookmark"]}

\* The step answered a switch to a file that had no tags table.
SwitchedFresh ==
    \/ resp.route = "startServer" /\ resp.fresh
    \/ resp.route = "GET /load_db/:name" /\ resp.kind = "redirect" /\ resp.fresh

\* C5 as claimed: when GET /load_db/:name (or the server start) switches to a
\* file without a tags table, then at its answer the file's tags table holds
\* exactly general, code, bookmark with ids 1, 2, 3, also with other switch and
\* create requests in flight.
C5_SeededWhateverInFlight ==
    SwitchedFresh =>
        /\ files[resp.name].tags.exists
        /\ files[resp.name].tags.rows = DefaultTags

\* C5 amended: the same, for a switch during which no other request was handled.
C5_SeededWhenAlone ==
    (SwitchedFresh /\ resp.alone) =>
        /\ files[resp.name].tags.exists
        /\ files[resp.name].tags.rows = DefaultTags

\* C5 witness: a switch to x.db, which had no tags table, was answered with
\* nothing else handled meanwhile.
C5_Witness ==
    /\ resp.route = "GET /load_db/:name" /\ resp.kind = "redirect"
    /\ resp.fresh /\ resp.alone
    /\ resp.name = "x.db"
    /\ files["x.db"].tags.rows = DefaultTags

\* The cards of the active store, and those with a given id.
Cards == files[db].cards.rows

CardsWithId(ids) == {c \in Cards : c.id \in ids}

TagsWithId(ids) == {t \in files[db].tags.rows : t.id \in ids}

\* C4: GET /hint/:id for an id that matches no card of the active store answers
\* 404 and does not call the completion service; the service is called only for
\* a card that the lookup by id returned.
C4_HintOnlyForFoundCard ==
    (resp.route = "GET /hint/:card_id" /\ resp.authed) =>
        /\ CardsWithId(resp.id) = {} =>
              resp.kind = "json" /\ resp.status = 404 /\ ~resp.hint
        /\ resp.hint => resp.card # {} /\ resp.card = CardsWithId(resp.id)

\* A hint was asked for an id no card has, in a store that has cards.
C4_Witness ==
    /\ resp.route = "GET /hint/:card_id" /\ resp.authed
    /\ Cards # {} /\ CardsWithId(resp.id) = {}
    /\ resp.status = 404

\* The cards a draw of unknown cards of type t may return.
UnknownOfType(t) == {c \in Cards : c.type = t /\ c.known = 0}

\* GET /memorize/:card_type answered: the card drawn is an unknown card of that
\* type, and the "learned all" redirect is given exactly when there is none.
DrawnByType ==
    (resp.route = "GET /memorize" /\ resp.authed /\ resp.id = {} /\ resp.type # {}) =>
        LET t == CHOOSE x \in resp.type : TRUE
        IN IF UnknownOfType(t) = {}
           THEN resp.kind = "redirect" /\ resp.card = {}
           ELSE resp.kind = "render" /\ resp.card # {} /\ resp.card \subseteq UnknownOfType(t)

\* C6: in every store state and for every type t, getCard(t) returns no row or a
\* row of cards with known = 0 and type = t, and no row exactly when there is no
\* such card.
C6_GetCardUnknownOfType ==
    /\ \A t \in TypeParams :
          /\ getCard(files[db], t).ok
          /\ getCard(files[db], t).rows = UnknownOfType(t)
    /\ DrawnByType

\* A card was drawn by type while another card of that type is known.
C6_Witness ==
    /\ resp.route = "GET /memorize" /\ resp.authed /\ resp.id = {} /\ resp.type # {}
    /\ resp.kind = "render"
    /\ \E c \in Cards : c.type \in resp.type /\ c.known = 1

\* GET /mark-known/:id/:type on an existing card: the lookup by id then reports
\* known = 1.
MarkedKnown ==
    (resp'.route = "GET /mark-known/:card_id/:card_type" /\ resp'.authed
     /\ CardsWithId(resp'.id) # {}) =>
        \A i \in resp'.id :
            /\ getCardById(files'[db'], i).rows # {}
            /\ \A c \in getCardById(files'[db'], i).rows : c.known = 1

\* The operations that reset a card's known flag or remove the card.
Resets ==
    {"GET /mark_unknown/:card_id/:card_type", "POST /edit-card", "GET /delete/:card_id"}

\* A card whose flag is 1 keeps it through every step that is no reset of it.
KnownKept ==
    \A c \in Cards :
        c.known = 1 =>
            \/ \E d \in files'[db'].cards.rows : d.id = c.id /\ d.known = 1
            \/ resp'.route \in Resets /\ resp'.id = {c.id}

\* A draw by type never returns a card whose flag is 1.
KnownNotDrawn ==
    (resp'.route = "GET /memorize" /\ resp'.id = {} /\ resp'.type # {}) =>
        \A c \in resp'.card : \A d \in Cards : d.id = c.id => d.known # 1

\* C7: after GET /mark-known/:id/:type on an existing card the lookup by id
\* reports known = 1, and until an operation resets that card's flag no draw of
\* unknown cards by type returns the card.
C7_KnownUntilReset ==
    [][MarkedKnown /\ KnownKept /\ KnownNotDrawn]_vars

\* A card was just marked known while another card of its type is still unknown.
C7_Witness ==
    /\ resp.route = "GET /mark-known/:card_id/:card_type" /\ resp.kind = "redirect"
    /\ \E c \in CardsWithId(resp.id) : c.known = 1 /\ UnknownOfType(c.type) # {}

\* Whether the characters of name occur, in order and adjacent, in text.
Occurs(name, text) ==
    \E i \in 1..(Len(text) - Len(name) + 1) :
        SubSeq(text, i, i + Len(name) - 1) = name

IsNumeral(str) ==
    str # <<>> /\ \A i \in 1..Len(str) : IsDigit(str[i])

\* C8: filtering by a name that is none of all, general, code, known, unknown and
\* no number yields zero rows or an error, and the statement text sent to the
\* store does not contain the name.
C8_FilterNameNotInStatement ==
    (resp.route = "GET /filter_cards/:filter_name" /\ resp.authed
     /\ resp.filter \notin NamedFilters /\ ~IsNumeral(resp.filter)) =>
        /\ resp.rows = {} \/ resp.status = 500
        /\ ~Occurs(resp.filter, resp.stmts[1])

\* A navigation request whose card or tag does not exist.
AbsentTarget ==
    /\ resp.authed
    /\ \/ /\ resp.route \in {"GET /memorize", "GET /memorize_known", "GET /edit/:card_id"}
          /\ resp.id # {} /\ CardsWithId(resp.id) = {}
       \/ /\ resp.route \in {"GET /memorize", "GET /memorize_known"}
          /\ resp.id = {} /\ resp.type # {} /\ TagsWithId(resp.type) = {}
       \/ /\ resp.route = "GET /edit-tag"
          /\ TagsWithId(resp.id) = {}

\* C9: a navigation request (memorize, memorize_known, edit, edit-tag) that names
\* an absent card or tag, or a type without a tag, is answered by an
\* informational notice and a redirect, never by a 500.
C9_AbsentTargetNoticed ==
    AbsentTarget =>
        /\ resp.kind = "redirect"
        /\ session[resp.sess].flash # <<>>
        /\ \A i \in 1..Len(session[resp.sess].flash) : session[resp.sess].flash[i].type = "info"

\* C10: every message queued in a session is shown by exactly one rendered
\* response, the next rendered one: a response that takes messages off the queue
\* is a rendered one and shows them.
C10_DrainedIsRendered ==
    (resp.arrival /\ resp.kind # "none" /\ resp.drained # <<>>) =>
        resp.kind = "render" /\ resp.shown = resp.drained

\* C11: a card inserted by POST /add with (type, front, back) and then fetched by
\* the id it was given has the same type, front and back and known = 0, whatever
\* cards the store held before.
C11_AddThenFetch ==
    [][(resp'.route = "POST /add" /\ resp'.kind = "redirect") =>
          /\ resp'.id # {}
          /\ CardsWithId(resp'.id) = {}
          /\ \A i \in resp'.id :
                getCardById(files'[db'], i).rows =
                    {[id |-> i, type |-> CHOOSE t \in resp'.type : TRUE,
                      front |-> resp'.front, back |-> resp'.back, known |-> 0]}]_vars

\* A card was added, with the texts the other way round, to a store in which
\* another card is known.
C11_Witness ==
    /\ resp.route = "POST /add" /\ resp.kind = "redirect"
    /\ resp.front = "a" /\ resp.back = "q"
    /\ \E c \in Cards : c.id \notin resp.id /\ c.known # 0

\* C12: GET /delete/:id for an id no card has is answered without an error and
\* leaves the cards as they were; for an existing id it removes that card and no
\* other.
C12_DeleteExactlyThat ==
    [][(resp'.route = "GET /delete/:card_id" /\ resp'.authed) =>
          /\ resp'.kind = "redirect" /\ resp'.status # 500
          /\ files'[db'].cards.rows = Cards \ CardsWithId(resp'.id)
          /\ CardsWithId(resp'.id) = {} => files'[db'].cards.rows = Cards]_vars

\* A delete named an id no card ever had, in a store that holds cards.
C12_Witness ==
    /\ resp.route = "GET /delete/:card_id" /\ resp.kind = "redirect"
    /\ resp.id = {9}
    /\ Cards # {}

\* C13: in every store state every card's known flag is 0 or 1, whatever value
\* POST /edit-card was sent for known.
C13_KnownIsBoolean ==
    \A c \in Cards : c.known \in {0, 1}

\* C14: every card rendered by GET /memorize_known[/:type[/:id]] has known = 1
\* and the type asked for (1 when none is given), also when an id is given.
C14_KnownReviewOfType ==
    (resp.route = "GET /memorize_known" /\ resp.authed /\ resp.kind = "render") =>
        \A c \in resp.card :
            /\ c.known = 1
            /\ c.type = (IF resp.type # {} THEN CHOOSE t \in resp.type : TRUE ELSE 1)

====
